---- MODULE Spec2Model ----
(***************************************************************************)
(* MeTroV: retrieval of radiosonde soundings.                              *)
(*   src/src/sondeo.py  lecturaSondeoIGRA, lecturaSondeoUWyo, get_sounding *)
(*   src/src/app.py     the "Generate Sounding" handler (retry loop)       *)
(* Numbers that the code holds as floats are kept as exact fractions       *)
(* [num, den]; NaN is a value of its own.  Exceptions are records          *)
(* [exc, msg, info]: the Python class, the message template and the text   *)
(* fragments the message embeds (str() of other exceptions, column names). *)
(***************************************************************************)
EXTENDS Integers, Sequences, FiniteSets, TLC

\* ------------------------------------------------------------------ bounds
MaxDeclared == 11   \* largest line count a header of a modelled archive declares
MaxExtra == 1       \* a block holds at most declared + MaxExtra data lines
MaxRows == 11       \* largest number of rows of a modelled web table

\* ------------------------------------------------------- program constants
MinLevels == 10     \* sondeo.py:111  len(p_list) < 10
Sentinel == -900    \* sondeo.py:75,84,90  "missing" threshold of IGRA fields

\* ------------------------------------------------------------ basic values
Num(n, d) == [nan |-> FALSE, num |-> n, den |-> d]

NaN == [nan |-> TRUE, num |-> 0, den |-> 1]

\* a <= b for two non-NaN fractions with positive denominators
NumLeq(a, b) == a.num * b.den <= b.num * a.den

Exc(cls, m, i) == [exc |-> cls, msg |-> m, info |-> i]

None == Exc("None", "", <<>>)

\* str(e): the message followed by what it embeds
Str(e) == <<e.msg>> \o e.info

Min2(a, b) == IF a <= b THEN a ELSE b

\* ------------------------------------------------------------- timestamps
\* f"{yr} {mn} {dy} {hr}" and the header's line[13:26]: four fields
TargetTime(date, hr) == <<date[1], date[2], date[3], hr>>

Dates == {<<"2026", "01", "14">>}

OtherDate == <<"2026", "01", "13">>

\* ------------------------------------------------------ IGRA archive lines
\* one record shape for both kinds of line; ints says whether every int()
\* the reader applies to the line succeeds
Hdr(t, n) ==
  [hdr |-> TRUE, ints |-> TRUE, time |-> t, nlines |-> n,
   pres |-> 0, temp |-> 0, dtd |-> 0, wdir |-> 0, wspd |-> 0]

BadHdr(t) == [Hdr(t, 0) EXCEPT !.ints = FALSE]

Dat(p, t, d, wd, ws) ==
  [hdr |-> FALSE, ints |-> TRUE, time |-> <<>>, nlines |-> 0,
   pres |-> p, temp |-> t, dtd |-> d, wdir |-> wd, wspd |-> ws]

\* the i-th ordinary data line of a block: pressures all different and in
\* no particular order, dew-point depression missing on every third line,
\* wind direction missing on every third line
GoodLine(i) ==
  Dat(100000 - 7500 * ((5 * i) % 13), 50 - 10 * i,
      IF i % 3 = 0 THEN -9999 ELSE 10 + i,
      IF i % 3 = 1 THEN -9999 ELSE 30 * i, 5 * i)

\* data lines that are out of the ordinary: not integers, missing pressure,
\* missing temperature, missing wind speed at the pressure of GoodLine(6),
\* pressure zero, and the worked example of the specification
OddLines ==
  { [Dat(0, 0, 0, 0, 0) EXCEPT !.ints = FALSE],
    Dat(-9999, 100, 10, 90, 50),
    Dat(92500, -9999, 10, 90, 50),
    Dat(70000, -100, 50, 270, -9999),
    Dat(0, -600, -9999, 90, 50),
    Dat(101325, -50, 20, 90, 50) }

Body(m, d, x) == [i \in 1..m |-> IF i = d THEN x ELSE GoodLine(i)]

FileTimes == {TargetTime(<<"2026", "01", "14">>, "00"), TargetTime(<<"2026", "01", "14">>, "12"), TargetTime(OtherDate, "00")}

Preludes == {<<>>, <<Hdr(TargetTime(OtherDate, "00"), 1), GoodLine(1)>>}

Postludes ==
  {<<>>, <<Hdr(TargetTime(OtherDate, "00"), 1), GoodLine(2)>>,
   <<Hdr(TargetTime(<<"2026", "01", "14">>, "00"), 1), GoodLine(3)>>,
   <<BadHdr(TargetTime(<<"2026", "01", "14">>, "12"))>>}

Declared == {0} \cup ((MinLevels - 1)..MaxDeclared)

\* <<n, m, d>>: a header declaring n lines, followed by m data lines, the
\* d-th of them odd (d = 0: none)
BlockShapes ==
  UNION { UNION { { <<n, m, d>> : d \in 0..m } :
                  m \in {k \in (n - 1)..(n + MaxExtra) : k >= 0} } :
          n \in Declared }

Blocks ==
  { <<Hdr(t, s[1])>> \o Body(s[2], s[3], x) :
      t \in FileTimes, s \in BlockShapes, x \in OddLines }

\* the archives of the line-level specification: prelude, one block, postlude
ArchiveFiles == { pre \o b \o post : pre \in Preludes, b \in Blocks, post \in Postludes }

\* ------------------------------------------------------------------ state
VARIABLES
  \* app.py: widgets, handler locals, session state
  CodEst, source_mode, hora_str, fecha, pc, hi, found_hr, last_error,
  shown, sounding_data, tried,
  \* get_sounding: the candidate hour, the sub-code, the value or exception
  \* a call hands back, the readers called by the current invocation
  test_hr, wmo, ret, calls,
  \* lecturaSondeoIGRA locals; origin[i] is the line p_list[i] was read from
  lines, pos, reading, n_expected, n_read,
  p_list, T_list, Td_list, wdir_list, wspd_list, origin,
  \* lecturaSondeoUWyo locals: the index into sources, the response last
  \* received (r, csv_text, df); fetched lists the requests of the retrieval
  si, last_exception, df, fetched

appVars == <<CodEst, source_mode, hora_str, fecha, hi, found_hr, last_error,
             shown, sounding_data, tried>>

igraVars == <<lines, pos, reading, n_expected, n_read,
              p_list, T_list, Td_list, wdir_list, wspd_list, origin>>

uwyoVars == <<si, last_exception, df>>

vars == <<appVars, pc, test_hr, wmo, ret, calls, igraVars, uwyoVars, fetched>>

\* ------------------------------------------------ arrays and their sorting
Take(a, idx) == [i \in 1..Len(idx) |-> a[idx[i]]]

Reversed(s) == [i \in 1..Len(s) |-> s[Len(s) + 1 - i]]

InsertAt(s, j, k) == SubSeq(s, 1, j) \o <<k>> \o SubSeq(s, j + 1, Len(s))

\* np.argsort: every ordering of the indices 1..k of p by ascending value.
\* numpy does not fix the order of equal values, so each one is an outcome.
RECURSIVE ArgSorts(_, _)
ArgSorts(p, k) ==
  IF k = 0 THEN {<<>>}
  ELSE UNION { { InsertAt(s, j, k) :
                   j \in Cardinality({i \in 1..Len(s) : ~NumLeq(p[k], p[s[i]])})
                         .. Cardinality({i \in 1..Len(s) : NumLeq(p[s[i]], p[k])}) } :
               s \in ArgSorts(p, k - 1) }

DescendingIdx_notReversed(p) == ArgSorts(p, Len(p))

\* np.argsort(p.magnitude)[::-1]
DescendingIdx(p) == { Reversed(s) : s \in ArgSorts(p, Len(p)) }

\* mpcalc.wind_components: u or v of a speed and a direction; the value is
\* kept symbolic (component, speed, direction, unit of the speed)
WindComponent(c, spd, dir, unit) ==
  [nan |-> spd.nan \/ dir.nan, comp |-> c, spd |-> spd, dir |-> dir, unit |-> unit]

WindArray(c, wspd, wdir, unit) ==
  [i \in 1..Len(wspd) |-> WindComponent(c, wspd[i], wdir[i], unit)]

Profile(p, T, Td, u, v) == [p |-> p, T |-> T, Td |-> Td, u |-> u, v |-> v]

Sorted_pressureOnly(p, T, Td, u, v, idx) == Profile(Take(p, idx), T, Td, u, v)

\* p[idx], T[idx], Td[idx], u[idx], v[idx]: one index array for all five
Sorted(p, T, Td, u, v, idx) ==
  Profile(Take(p, idx), Take(T, idx), Take(Td, idx), Take(u, idx), Take(v, idx))

NoProfile == Profile(<<>>, <<>>, <<>>, <<>>, <<>>)

\* what a call hands back: a value (profile, tag) or a raised exception
Returned(prof, tag) == [ok |-> TRUE, prof |-> prof, tag |-> tag, err |-> None]

Raised(e) == [ok |-> FALSE, prof |-> NoProfile, tag |-> "", err |-> e]

NoReturn == Raised(None)

\* --------------------------------------------------- lecturaSondeoIGRA
IGRAUnavailable == Exc("ValueError", "IGRA sounding not available", <<>>)

IGRAHeaderError == Exc("ValueError", "invalid literal for int()", <<>>)

\* a reader is called, hands back a value, or raises: the entries of calls
Call(reader, code, hr) ==
  [reader |-> reader, ev |-> "call", code |-> code, hr |-> hr, err |-> None]

Back(reader, r) ==
  [reader |-> reader, ev |-> IF r.ok THEN "returned" ELSE "raised",
   code |-> <<>>, hr |-> "", err |-> r.err]

\* line 59: the line is passed over without being counted
Skipped(rd, nr, ne) == ~rd \/ nr >= ne

\* lines 62-77: the five int() succeed and the basic QC passes
PassesQC_needsDewPoint(line) ==
  line.ints /\ ~(line.pres < 0 \/ line.temp < Sentinel \/ line.dtd < Sentinel)

PassesQC_pressureOnly(line) == line.ints /\ ~(line.pres < 0)

PassesQC(line) == line.ints /\ ~(line.pres < 0 \/ line.temp < Sentinel)

\* n_read after a data line (lines 59-60, 71, 76, 109)
n_read_parsedOnly(line, rd, nr, ne) ==
  IF Skipped(rd, nr, ne) \/ ~line.ints THEN nr ELSE nr + 1

n_read_next(line, rd, nr, ne) == IF Skipped(rd, nr, ne) THEN nr ELSE nr + 1

IsTarget_hourOnly(time, target_time) == time[4] = target_time[4]

\* time == target_time
IsTarget(time, target_time) == time = target_time

\* pres / 100.0 and temp / 10.0
pres_val(line) == Num(line.pres, 100)

temp_val(line) == Num(line.temp, 10)

td_val_depression(line) ==
  IF line.dtd < Sentinel THEN NaN ELSE Num(line.dtd, 10)

\* nan below the sentinel, else (temp - dtd) / 10.0
td_val(line) ==
  IF line.dtd < Sentinel THEN NaN ELSE Num(line.temp - line.dtd, 10)

\* nan for both when either is below the sentinel, else float(wdir) and
\* float(wspd) / 10.0
wdir_val(line) ==
  IF line.wdir < Sentinel \/ line.wspd < Sentinel THEN NaN ELSE Num(line.wdir, 1)

wspd_val(line) ==
  IF line.wdir < Sentinel \/ line.wspd < Sentinel THEN NaN ELSE Num(line.wspd, 10)

\* one iteration of "for line in lines"
IGRALine ==
  /\ pc = "igra_loop"
  /\ pos < Len(lines)
  /\ LET line == lines[pos + 1]
         keep == ~line.hdr /\ ~Skipped(reading, n_read, n_expected) /\ PassesQC(line)
         matches == IsTarget(line.time, TargetTime(fecha, test_hr))
     IN  /\ pos' = pos + 1
         /\ IF line.hdr /\ ~line.ints
              THEN /\ ret' = Raised(IGRAHeaderError)
                   /\ calls' = Append(calls, Back("IGRA", Raised(IGRAHeaderError)))
                   /\ pc' = "gs_igra"
                   /\ UNCHANGED <<reading, n_expected, n_read>>
              ELSE /\ UNCHANGED <<ret, calls, pc>>
                   /\ reading' = IF line.hdr THEN matches ELSE reading
                   /\ n_expected' = IF line.hdr
                                      THEN (IF matches THEN line.nlines ELSE 0)
                                      ELSE n_expected
                   /\ n_read' = IF line.hdr THEN 0
                                ELSE n_read_next(line, reading, n_read, n_expected)
         /\ p_list' = IF keep THEN Append(p_list, pres_val(line)) ELSE p_list
         /\ T_list' = IF keep THEN Append(T_list, temp_val(line)) ELSE T_list
         /\ Td_list' = IF keep THEN Append(Td_list, td_val(line)) ELSE Td_list
         /\ wdir_list' = IF keep THEN Append(wdir_list, wdir_val(line)) ELSE wdir_list
         /\ wspd_list' = IF keep THEN Append(wspd_list, wspd_val(line)) ELSE wspd_list
         /\ origin' = IF keep THEN Append(origin, pos + 1) ELSE origin
  /\ UNCHANGED <<appVars, test_hr, wmo, lines, uwyoVars, fetched>>

\* after the loop: the size check, the arrays, the sort, the return
IGRAFinish ==
  /\ pc = "igra_loop"
  /\ pos = Len(lines)
  /\ IF Len(p_list) < MinLevels
       THEN ret' = Raised(IGRAUnavailable)
       ELSE \E idx \in DescendingIdx(p_list) :
              ret' = Returned(Sorted(p_list, T_list, Td_list,
                                     WindArray("u", wspd_list, wdir_list, "m/s"),
                                     WindArray("v", wspd_list, wdir_list, "m/s"), idx),
                              "")
  /\ calls' = Append(calls, Back("IGRA", ret'))
  /\ fetched' = [fetched EXCEPT ![Len(fetched)].ok = ret'.ok]
  /\ pc' = "gs_igra"
  /\ UNCHANGED <<appVars, test_hr, wmo, igraVars, uwyoVars>>

\* the locals of lecturaSondeoIGRA once the archive is read into lines
IGRAEntry(file) ==
  /\ lines' = file
  /\ pos' = 0
  /\ reading' = FALSE
  /\ n_expected' = 0
  /\ n_read' = 0
  /\ p_list' = <<>>
  /\ T_list' = <<>>
  /\ Td_list' = <<>>
  /\ wdir_list' = <<>>
  /\ wspd_list' = <<>>
  /\ origin' = <<>>

\* --------------------------------------------------- web responses (UWyo)
\* a cell of the CSV text: a number or some other text (empty, "<html>", ...)
NumCell(n) == [numeric |-> TRUE, num |-> n, den |-> 1]

TextCell == [numeric |-> FALSE, num |-> 0, den |-> 1]

\* pd.to_numeric(..., errors='coerce') on one cell
ToNumeric(cell) == IF cell.numeric THEN Num(cell.num, cell.den) ELSE NaN

\* the response of requests.get and what pd.read_csv makes of its text:
\* net is "ok" or the requests exception, body is "table" or the pandas
\* exception, cols and rows are the DataFrame
Response(net, body, cols, rows) ==
  [net |-> net, body |-> body, cols |-> cols, rows |-> rows]

\* header lines the endpoint is modelled to answer with
WebHeaders ==
  { <<"pressure", "height", "temperature", "dew point", "direction", "speed">>,
    <<"pressure_hPa", "height", "temperature_C", "dew point temperature_C",
      "wind direction_degree", "wind speed_m/s">>,
    <<"pressure_hPa", "height", "temperature_C", "dew point temperature_C",
      "wind direction_degree", "wind speed_kn">>,
    <<"pressure", "height", "temp", "dwpt", "drct", "sknt">>,
    <<"pres", "height", "temp", "dwpt", "drct", "sknt">>,
    <<"pressure", "temperature", "direction", "speed">>,
    <<"Pressure", "Temperature", "Dew point", "Direction", "Speed">>,
    <<"height", "temperature">>,
    <<"<!DOCTYPE html>">> }

PressureNames == {"pressure", "pressure_hPa", "pres", "Pressure"}

TemperatureNames == {"temperature", "temperature_C", "temp", "Temperature"}

DewPointNames == {"dew point", "dew point temperature_C", "dwpt", "Dew point"}

\* the cell the endpoint puts in row i under a column of the given name;
\* bad names what is wrong with the row ("" for nothing)
WebCell(col, i, bad) ==
  IF col \in PressureNames
    THEN (IF bad = "p" THEN TextCell ELSE NumCell(1000 - 75 * ((5 * i) % 13)))
  ELSE IF col \in TemperatureNames
    THEN (IF bad = "T" THEN TextCell ELSE NumCell(20 - 5 * i))
  ELSE IF col \in DewPointNames
    THEN (IF i % 3 = 0 THEN TextCell ELSE NumCell(15 - 5 * i))
  ELSE IF col = "<!DOCTYPE html>" THEN TextCell
  ELSE NumCell(10 * i)

\* a table of m rows under header h whose d-th row is bad (d = 0: none)
WebTable(h, m, d, bad) ==
  Response("ok", "table", h,
           [i \in 1..m |-> [c \in 1..Len(h) |-> WebCell(h[c], i, IF i = d THEN bad ELSE "")]])

\* 1000 hPa twice, for the order of equal pressures
TiedTable ==
  Response("ok", "table", <<"pressure", "temperature", "dew point", "direction", "speed">>,
           << <<NumCell(850), NumCell(5), NumCell(1), NumCell(200), NumCell(20)>>,
              <<NumCell(1000), NumCell(15), NumCell(10), NumCell(180), NumCell(5)>>,
              <<NumCell(1000), NumCell(16), TextCell, TextCell, NumCell(6)>> >>)

NoTable(net, body) == Response(net, body, <<>>, <<>>)

WebFailures ==
  { NoTable("Timeout", ""), NoTable("HTTPError", ""),
    NoTable("ok", "ParserError"), NoTable("ok", "EmptyDataError") }

\* <<m, d>>: m rows, none of them bad (d = 0) or the last one (d = m)
WebShapes == UNION { { <<m, d>> : d \in {0, m} } : m \in 0..MaxRows }

\* the responses of the reader-level specification
WebResponses ==
  WebFailures \cup {TiedTable}
  \cup { WebTable(h, s[1], s[2], bad) : h \in WebHeaders, s \in WebShapes, bad \in {"p", "T"} }

\* --------------------------------------------------- lecturaSondeoUWyo
sources_firstAgain == <<"FM35", "BUFR", "FM35">>

sources_swapped == <<"BUFR", "FM35">>

sources == <<"FM35", "BUFR">>

\* f"UWYO-{src}"
UWyoTag(src) == IF src = "FM35" THEN "UWYO-FM35" ELSE "UWYO-BUFR"

\* names whose lower-case form contains "pressure": the test of line 158
\* is made on str(df.columns).lower()
ContainsPressure(name) ==
  name \in {"pressure", "pressure_hPa", "Pressure"}

\* "m/s" in name, "kn" in name or "sknt" in name
ContainsMs(name) == name \in {"wind speed_m/s"}

ContainsKn(name) == name \in {"sknt", "wind speed_kn"}

Range(seq) == {seq[i] : i \in 1..Len(seq)}

ColumnIndex(cols, c) == CHOOSE i \in 1..Len(cols) : cols[i] = c

\* df[c] as a list of cells
Column(resp, c) == [r \in 1..Len(resp.rows) |-> resp.rows[r][ColumnIndex(resp.cols, c)]]

\* get_col: the first candidate that is a column; "" stands for KeyError
RECURSIVE get_col(_, _)
get_col(cols, candidates) ==
  IF candidates = <<>> THEN ""
  ELSE IF candidates[1] \in Range(cols) THEN candidates[1]
  ELSE get_col(cols, Tail(candidates))

pAliases == <<"pressure", "pressure_hPa", "pres">>

TAliases == <<"temperature", "temperature_C", "temp">>

TdAliases == <<"dew point", "dew point temperature_C", "dwpt">>

wdirAliases == <<"direction", "wind direction_degree", "drct">>

wspdAliases == <<"speed", "wind speed_m/s", "sknt", "wind speed_kn">>

AliasLists == <<pAliases, TAliases, TdAliases, wdirAliases, wspdAliases>>

\* the first field, in the order of the try block, that no alias resolves
\* (0: every field resolves)
FirstMissing(cols) ==
  LET miss == {f \in 1..5 : get_col(cols, AliasLists[f]) = ""}
  IN  IF miss = {} THEN 0 ELSE CHOOSE f \in miss : \A g \in miss : f <= g

wind_units_alwaysKnots(name) == "knots"

wind_units(name) ==
  IF ContainsMs(name) THEN "m/s"
  ELSE IF ContainsKn(name) THEN "knots"
  ELSE "knots"

InvalidOrEmpty(src) == Exc("ValueError", "Invalid or empty response with src", <<src>>)

\* line 223: the KeyError text, the columns found, the start of the content
\* (the text of a table starts with its header line)
FormatoInesperado(resp) ==
  Exc("ValueError", "Formato UWyo inesperado o columna faltante",
      <<"Ninguna de las columnas encontrada">> \o AliasLists[FirstMissing(resp.cols)]
        \o <<"Columnas encontradas">> \o resp.cols
        \o <<"Inicio contenido">> \o resp.cols)

VacioDespuesDeFiltrar ==
  Exc("ValueError", "Sondeo UWyo no disponible o vacio despues de filtrar", <<>>)

AllSourcesFailed(last) ==
  Exc("ValueError", "Could not download UWyo sounding with any source. Last error", Str(last))

\* s[mask]: the entries of s at the positions where mask holds, in order
RECURSIVE Masked(_, _)
Masked(s, mask) ==
  IF s = <<>> THEN <<>>
  ELSE (IF mask[1] THEN <<s[1]>> ELSE <<>>) \o Masked(Tail(s), Tail(mask))

ToNumericAll(cells) == [i \in 1..Len(cells) |-> ToNumeric(cells[i])]

\* the body of the try block of one source: the outcomes of lines 145-241
\* for the response resp (more than one only through the order of equal
\* pressures)
UWyoTry(resp, src) ==
  IF resp.net # "ok" THEN {Raised(Exc(resp.net, "requests", <<>>))}
  ELSE IF resp.body # "table" THEN {Raised(Exc(resp.body, "pandas", <<>>))}
  ELSE IF resp.rows = <<>> \/ resp.cols = <<>>
          \/ ~(\E c \in Range(resp.cols) : ContainsPressure(c))
    THEN {Raised(InvalidOrEmpty(src))}
  ELSE IF FirstMissing(resp.cols) # 0 THEN {Raised(FormatoInesperado(resp))}
  ELSE
    LET p == ToNumericAll(Column(resp, get_col(resp.cols, pAliases)))
        T == ToNumericAll(Column(resp, get_col(resp.cols, TAliases)))
        Td == ToNumericAll(Column(resp, get_col(resp.cols, TdAliases)))
        wdir == ToNumericAll(Column(resp, get_col(resp.cols, wdirAliases)))
        wspd_col_name == get_col(resp.cols, wspdAliases)
        wspd == ToNumericAll(Column(resp, wspd_col_name))
        mask == [i \in 1..Len(p) |-> ~p[i].nan /\ ~T[i].nan]
        p_clean == Masked(p, mask)
        T_clean == Masked(T, mask)
        Td_clean == Masked(Td, mask)
        wdir_clean == Masked(wdir, mask)
        wspd_clean == Masked(wspd, mask)
        u == WindArray("u", wspd_clean, wdir_clean, wind_units(wspd_col_name))
        v == WindArray("v", wspd_clean, wdir_clean, wind_units(wspd_col_name))
    IN  IF Len(p_clean) = 0 THEN {Raised(VacioDespuesDeFiltrar)}
        ELSE { Returned(Sorted(p_clean, T_clean, Td_clean, u, v, idx), UWyoTag(src)) :
                 idx \in DescendingIdx(p_clean) }

\* a URL as the fields it is built from
Url(site, id, date, hr, type, src) ==
  [site |-> site, id |-> id, date |-> date, hr |-> hr, type |-> type, src |-> src]

\* lines 145-148
UWyoRequest(CodEst_WMO, date, hr, src) == Url("uwyo", CodEst_WMO, date, hr, "TEXT:CSV", src)

\* lines 28-32
IGRARequest(code) == Url("igra", code, <<>>, "", "zip", "")

\* an entry of fetched: the URL requested and whether the reader returned a
\* profile made from the response
Fetch(url, ok) == [url |-> url, ok |-> ok]

\* one iteration of "for src in sources": request, parse, return or go on
UWyoAttempt(R) ==
  /\ pc = "uwyo_loop"
  /\ si < Len(sources)
  /\ LET src == sources[si + 1] IN
     \E resp \in R : \E out \in UWyoTry(resp, src) :
       /\ df' = resp
       /\ fetched' = Append(fetched, Fetch(UWyoRequest(wmo, fecha, test_hr, src), out.ok))
       /\ IF out.ok
            THEN /\ ret' = out
                 /\ calls' = Append(calls, Back("UWYO", out))
                 /\ pc' = "gs_uwyo"
                 /\ UNCHANGED <<si, last_exception>>
            ELSE /\ last_exception' = out.err
                 /\ si' = si + 1
                 /\ UNCHANGED <<ret, calls, pc>>
  /\ UNCHANGED <<appVars, test_hr, wmo, igraVars>>

\* line 249: every source failed
UWyoExhausted ==
  /\ pc = "uwyo_loop"
  /\ si = Len(sources)
  /\ ret' = Raised(AllSourcesFailed(last_exception))
  /\ calls' = Append(calls, Back("UWYO", ret'))
  /\ pc' = "gs_uwyo"
  /\ UNCHANGED <<appVars, test_hr, wmo, igraVars, uwyoVars, fetched>>

\* lines 34-39: the request and the unpacking of the archive
ArchiveFailures == {"Timeout", "HTTPError", "BadZipFile"}

IGRAFetch(F) ==
  /\ pc = "igra_get"
  /\ \/ \E e \in ArchiveFailures :
          /\ fetched' = Append(fetched, Fetch(IGRARequest(CodEst), FALSE))
          /\ ret' = Raised(Exc(e, "requests/zipfile", <<>>))
          /\ calls' = Append(calls, Back("IGRA", ret'))
          /\ pc' = "gs_igra"
          /\ UNCHANGED igraVars
     \/ \E file \in F :
          /\ fetched' = Append(fetched, Fetch(IGRARequest(CodEst), FALSE))
          /\ IGRAEntry(file)
          /\ pc' = "igra_loop"
          /\ UNCHANGED <<ret, calls>>
  /\ UNCHANGED <<appVars, test_hr, wmo, uwyoVars>>

\* ----------------------------------------------------------- get_sounding
\* an entry of tried: a candidate hour and how get_sounding ended for it
Tried(hr, out) == [hr |-> hr, out |-> out]

Outcome(t, ok) ==
  [t EXCEPT ![Len(t)] = Tried(t[Len(t)].hr, IF ok THEN "returned" ELSE "raised")]

\* a station code is the sequence of its characters; CodEst[-5:]
Last5(code) == SubSeq(code, IF Len(code) > 5 THEN Len(code) - 4 ELSE 1, Len(code))

\* lines 140-141
UWyoEntry ==
  /\ si' = 0
  /\ last_exception' = None
  /\ df' = NoTable("", "")

\* the locals of a reader are gone once get_sounding has its result
IGRAExit == IGRAEntry(<<>>)

UWyoExit == UWyoEntry /\ wmo' = <<>>

\* lines 261-272 and 275-276: the dispatch on source_mode
GetSounding ==
  /\ pc = "gs"
  /\ IF source_mode \in {"IGRA", "AUTO"}
       THEN /\ calls' = <<Call("IGRA", CodEst, test_hr)>>
            /\ pc' = "igra_get"
            /\ UNCHANGED <<wmo, uwyoVars>>
       ELSE /\ wmo' = Last5(CodEst)
            /\ calls' = <<Call("UWYO", Last5(CodEst), test_hr)>>
            /\ UWyoEntry
            /\ pc' = "uwyo_loop"
  /\ UNCHANGED <<appVars, test_hr, ret, igraVars, fetched>>

\* "except Exception" of line 277 is reached: the mode is AUTO and the
\* archive reader raised, whatever the exception
FallsBack_valueError(mode, r) == mode = "AUTO" /\ ~r.ok /\ r.err.exc = "ValueError"

FallsBack_network(mode, r) == mode = "AUTO" /\ ~r.ok /\ r.err.exc # "ValueError"

FallsBack_anyMode(mode, r) == ~r.ok

FallsBack(mode, r) == mode = "AUTO" /\ ~r.ok

\* lecturaSondeoIGRA is back: lines 266 and 276-279
AfterIGRA ==
  /\ pc = "gs_igra"
  /\ IF FallsBack(source_mode, ret)
       THEN /\ wmo' = Last5(CodEst)
            /\ calls' = Append(calls, Call("UWYO", Last5(CodEst), test_hr))
            /\ UWyoEntry
            /\ ret' = NoReturn
            /\ pc' = "uwyo_loop"
            /\ UNCHANGED tried
       ELSE /\ ret' = IF ret.ok THEN Returned(ret.prof, "IGRA") ELSE ret
            /\ tried' = Outcome(tried, ret.ok)
            /\ pc' = "retry_ret"
            /\ UNCHANGED <<wmo, calls, uwyoVars>>
  /\ IGRAExit
  /\ UNCHANGED <<CodEst, source_mode, hora_str, fecha, hi, found_hr, last_error,
                 shown, sounding_data, test_hr, fetched>>

\* lecturaSondeoUWyo is back: lines 271-272 and 279-280
AfterUWyo ==
  /\ pc = "gs_uwyo"
  /\ ret' = IF ret.ok THEN Returned(ret.prof, ret.tag) ELSE ret
  /\ tried' = Outcome(tried, ret.ok)
  /\ UWyoExit
  /\ pc' = "retry_ret"
  /\ UNCHANGED <<CodEst, source_mode, hora_str, fecha, hi, found_hr, last_error,
                 shown, sounding_data, test_hr, calls, igraVars, fetched>>

\* ------------------------------------ sounding_sources.py: get_sounding
\* source_mode.upper() on the modes a caller is modelled to pass
Upper(mode) == IF mode = "auto" THEN "AUTO" ELSE mode

BadSourceMode == Exc("ValueError", "source_mode debe ser IGRA, UWYO o AUTO", <<>>)

\* the six values lecturaSondeoUWyo returns, as one tuple
SixTuple(prof, src) ==
  [p |-> prof.p, T |-> prof.T, Td |-> prof.Td, u |-> prof.u, v |-> prof.v, src |-> src]

\* lines 11-23 and 26-27: the check of source_mode and the dispatch
SourcesGetSounding ==
  /\ pc = "ss_gs"
  /\ source_mode' = Upper(source_mode)
  /\ IF source_mode' \notin {"IGRA", "UWYO", "AUTO"}
       THEN /\ ret' = Raised(BadSourceMode)
            /\ pc' = "ss_ret"
            /\ UNCHANGED <<wmo, calls, uwyoVars>>
       ELSE IF source_mode' \in {"IGRA", "AUTO"}
       THEN /\ calls' = <<Call("IGRA", CodEst, test_hr)>>
            /\ pc' = "igra_get"
            /\ UNCHANGED <<wmo, ret, uwyoVars>>
       ELSE /\ wmo' = Last5(CodEst)
            /\ calls' = <<Call("UWYO", Last5(CodEst), test_hr)>>
            /\ UWyoEntry
            /\ pc' = "uwyo_loop"
            /\ UNCHANGED ret
  /\ UNCHANGED <<CodEst, hora_str, fecha, hi, found_hr, last_error, shown,
                 sounding_data, tried, test_hr, igraVars, fetched>>

\* lecturaSondeoIGRA is back: lines 18 and 27-29
SourcesAfterIGRA ==
  /\ pc = "gs_igra"
  /\ IF source_mode = "AUTO" /\ ~ret.ok
       THEN /\ wmo' = Last5(CodEst)
            /\ calls' = Append(calls, Call("UWYO", Last5(CodEst), test_hr))
            /\ UWyoEntry
            /\ ret' = NoReturn
            /\ pc' = "uwyo_loop"
       ELSE /\ ret' = IF ret.ok THEN Returned(ret.prof, "IGRA") ELSE ret
            /\ pc' = "ss_ret"
            /\ UNCHANGED <<wmo, calls, uwyoVars>>
  /\ IGRAExit
  /\ UNCHANGED <<appVars, test_hr, fetched>>

\* lecturaSondeoUWyo is back: lines 23 and 30, the whole tuple as the
\* first value and "UWYO" as the second
SourcesAfterUWyo ==
  /\ pc = "gs_uwyo"
  /\ ret' = IF ret.ok THEN Returned(SixTuple(ret.prof, ret.tag), "UWYO") ELSE ret
  /\ UWyoExit
  /\ pc' = "ss_ret"
  /\ UNCHANGED <<appVars, test_hr, calls, igraVars, fetched>>

\* ------------------------------------------------- app.py: the handler
Stations ==
  { <<"S", "P", "M", "0", "0", "0", "0", "8", "3", "8", "3">>,
    <<"U", "S", "M", "0", "0", "0", "7", "2", "4", "5", "1">> }

SourceModes == <<"AUTO", "IGRA", "UWYO">>

hora_options == <<"AUTO", "00:00", "03:00", "06:00", "09:00", "12:00", "15:00", "18:00", "21:00">>

\* datetime.strptime(hora_str, '%H:%M').hour
StrpHour(s) ==
  CASE s = "00:00" -> 0 [] s = "03:00" -> 3 [] s = "06:00" -> 6 [] s = "09:00" -> 9
    [] s = "12:00" -> 12 [] s = "15:00" -> 15 [] s = "18:00" -> 18 [] s = "21:00" -> 21

\* f"{n:02}"
Fmt02(n) ==
  CASE n = 0 -> "00" [] n = 3 -> "03" [] n = 6 -> "06" [] n = 9 -> "09"
    [] n = 12 -> "12" [] n = 15 -> "15" [] n = 18 -> "18" [] n = 21 -> "21"

hours_to_try_ascending(hora) ==
  IF hora = "AUTO" THEN <<"00", "03", "06", "09", "12", "15", "18", "21">>
  ELSE <<Fmt02(StrpHour(hora))>>

\* lines 84-89
hours_to_try(hora) ==
  IF hora = "AUTO" THEN <<"00", "12", "06", "18", "03", "09", "15", "21">>
  ELSE <<Fmt02(StrpHour(hora))>>

NoData ==
  [stored |-> FALSE, prof |-> NoProfile, CodEst |-> <<>>, date |-> <<>>, hr |-> "",
   source_used |-> "", source_display |-> "", source_url |-> Url("", <<>>, <<>>, "", "", "")]

\* lines 101-103: the button is pressed on the widgets' values
Press ==
  /\ pc = "idle"
  /\ shown = None
  /\ tried = <<>>
  /\ \E c \in Stations, m \in Range(SourceModes), h \in Range(hora_options), d \in Dates :
       /\ CodEst' = c
       /\ source_mode' = m
       /\ hora_str' = h
       /\ fecha' = d
  /\ hi' = 0
  /\ found_hr' = ""
  /\ last_error' = None
  /\ ret' = NoReturn
  /\ pc' = "retry"
  /\ UNCHANGED <<shown, sounding_data, tried, test_hr, wmo, calls, igraVars, uwyoVars, fetched>>

\* line 105-107: the next candidate hour is handed to get_sounding
RetryNext ==
  /\ pc = "retry"
  /\ hi < Len(hours_to_try(hora_str))
  /\ test_hr' = hours_to_try(hora_str)[hi + 1]
  /\ tried' = Append(tried, Tried(hours_to_try(hora_str)[hi + 1], ""))
  /\ ret' = NoReturn
  /\ pc' = "gs"
  /\ UNCHANGED <<CodEst, source_mode, hora_str, fecha, hi, found_hr, last_error,
                 shown, sounding_data, wmo, calls, igraVars, uwyoVars, fetched>>

\* lines 107-112: get_sounding is back
RetryReturn ==
  /\ pc = "retry_ret"
  /\ IF ret.ok
       THEN /\ found_hr' = test_hr
            /\ pc' = "found"
            /\ UNCHANGED <<hi, last_error>>
       ELSE /\ last_error' = ret.err
            /\ hi' = hi + 1
            /\ pc' = "retry"
            /\ UNCHANGED found_hr
  /\ calls' = <<>>
  /\ UNCHANGED <<CodEst, source_mode, hora_str, fecha, shown, sounding_data, tried,
                 test_hr, wmo, ret, igraVars, uwyoVars, fetched>>

NoSoundingFound_lastHour(date, hours, last) ==
  Exc("ValueError", "No sounding found for date",
      <<"Tried", hours[Len(hours)], "Last error">> \o Str(last))

\* line 115, caught at line 159
NoSoundingFound(date, hours, last) ==
  Exc("ValueError", "No sounding found for date", <<"Tried">> \o hours \o <<"Last error">> \o Str(last))

RetryExhausted_clears ==
  /\ pc = "retry"
  /\ hi = Len(hours_to_try(hora_str))
  /\ shown' = NoSoundingFound(fecha, hours_to_try(hora_str), last_error)
  /\ sounding_data' = NoData
  /\ pc' = "idle"
  /\ UNCHANGED <<CodEst, source_mode, hora_str, fecha, hi, found_hr, last_error,
                 tried, test_hr, wmo, ret, calls, igraVars, uwyoVars, fetched>>

\* lines 114-115 and 159-160: the candidates are used up
RetryExhausted ==
  /\ pc = "retry"
  /\ hi = Len(hours_to_try(hora_str))
  /\ shown' = NoSoundingFound(fecha, hours_to_try(hora_str), last_error)
  /\ pc' = "idle"
  /\ UNCHANGED <<CodEst, source_mode, hora_str, fecha, hi, found_hr, last_error,
                 sounding_data, tried, test_hr, wmo, ret, calls, igraVars, uwyoVars, fetched>>

\* lines 121-126
SourceDisplay(source_used) ==
  IF source_used = "IGRA" THEN "Integrated Global Radiosonde Archive (IGRA - NOAA)"
  ELSE IF source_used \in {"UWYO", "UWYO-FM35", "UWYO-BUFR"}
    THEN "University of Wyoming Weather Web (UWYO)"
  ELSE source_used

SrcParam_alwaysBUFR(source_used) == "BUFR"

\* line 143: source_used.split("-")[1] if "-" in source_used else "BUFR"
SrcParam(source_used) ==
  IF source_used = "UWYO-FM35" THEN "FM35" ELSE "BUFR"

\* lines 138-149
SourceUrl(source_used, code, date, hr) ==
  IF source_used = "IGRA" THEN IGRARequest(code)
  ELSE IF source_used \in {"UWYO", "UWYO-FM35", "UWYO-BUFR"}
    THEN Url("uwyo", Last5(code), date, hr, "TEXT:LIST", SrcParam(source_used))
  ELSE Url("", <<>>, <<>>, "", "", "")

\* lines 150-157: the dictionary put in the session state
SoundingRecord(prof, code, date, hr, source_used) ==
  [stored |-> TRUE, prof |-> prof, CodEst |-> code, date |-> date,
   hr |-> hr, source_used |-> source_used,
   source_display |-> SourceDisplay(source_used),
   source_url |-> SourceUrl(source_used, code, date, hr)]

MetPyError == Exc("ValueError", "metpy.calc", <<>>)

\* lines 118-160: the indices are computed by metpy (which may raise on a
\* profile it cannot handle) and the sounding is stored in the session
Store ==
  /\ pc = "found"
  /\ \/ /\ sounding_data' = SoundingRecord(ret.prof, CodEst, fecha, found_hr, ret.tag)
        /\ UNCHANGED shown
     \/ /\ shown' = MetPyError
        /\ UNCHANGED sounding_data
  /\ pc' = "idle"
  /\ UNCHANGED <<CodEst, source_mode, hora_str, fecha, hi, found_hr, last_error, tried,
                 test_hr, wmo, ret, calls, igraVars, uwyoVars, fetched>>

\* ------------------------------------------------------- specifications
\* the archives and web responses of the handler-level specification
AppArchiveFiles ==
  { <<Hdr(TargetTime(OtherDate, "00"), 1), GoodLine(1)>>,
    <<Hdr(TargetTime(<<"2026", "01", "14">>, "00"), 9)>> \o Body(10, 0, GoodLine(1)),
    <<Hdr(TargetTime(<<"2026", "01", "14">>, "00"), 10)>> \o Body(11, 0, GoodLine(1)),
    <<Hdr(TargetTime(<<"2026", "01", "14">>, "12"), 11)>>
       \o Body(11, 4, Dat(92500, -9999, 10, 90, 50)) }

AppWebResponses ==
  { NoTable("Timeout", ""), NoTable("ok", "ParserError"),
    WebTable(<<"<!DOCTYPE html>">>, 2, 0, ""),
    WebTable(<<"height", "temperature">>, 2, 0, ""),
    WebTable(<<"pressure", "height", "temperature", "dew point", "direction", "speed">>, 0, 0, ""),
    WebTable(<<"pressure", "height", "temperature", "dew point", "direction", "speed">>, 1, 1, "p"),
    WebTable(<<"pressure", "height", "temperature", "dew point", "direction", "speed">>, 3, 0, ""),
    WebTable(<<"pressure", "temperature", "direction", "speed">>, 3, 0, ""),
    WebTable(<<"pressure_hPa", "height", "temperature_C", "dew point temperature_C",
               "wind direction_degree", "wind speed_m/s">>, 10, 2, "T"),
    WebTable(<<"pressure", "height", "temp", "dwpt", "drct", "sknt">>, 11, 0, "") }

\* a fresh session: the widgets show their first option
Init ==
  /\ CodEst = CHOOSE c \in Stations : TRUE
  /\ source_mode = SourceModes[1]
  /\ hora_str = hora_options[1]
  /\ fecha = CHOOSE d \in Dates : TRUE
  /\ pc = "idle"
  /\ hi = 0
  /\ found_hr = ""
  /\ last_error = None
  /\ shown = None
  /\ sounding_data = NoData
  /\ tried = <<>>
  /\ test_hr = ""
  /\ wmo = <<>>
  /\ ret = NoReturn
  /\ calls = <<>>
  /\ lines = <<>>
  /\ pos = 0
  /\ reading = FALSE
  /\ n_expected = 0
  /\ n_read = 0
  /\ p_list = <<>>
  /\ T_list = <<>>
  /\ Td_list = <<>>
  /\ wdir_list = <<>>
  /\ wspd_list = <<>>
  /\ origin = <<>>
  /\ si = 0
  /\ last_exception = None
  /\ df = NoTable("", "")
  /\ fetched = <<>>

Next ==
  \/ Press
  \/ RetryNext
  \/ GetSounding
  \/ IGRAFetch(AppArchiveFiles)
  \/ IGRALine
  \/ IGRAFinish
  \/ AfterIGRA
  \/ UWyoAttempt(AppWebResponses)
  \/ UWyoExhausted
  \/ AfterUWyo
  \/ RetryReturn
  \/ RetryExhausted
  \/ Store

Spec == Init /\ [][Next]_vars

\* a session that holds the sounding of an earlier request: the web
\* profiles of the first station at 00
PriorSoundings ==
  { SoundingRecord(out.prof, CHOOSE c \in Stations : TRUE, d, "00", out.tag) :
      d \in Dates,
      out \in { o \in UNION { UWyoTry(resp, "FM35") : resp \in AppWebResponses } : o.ok } }

InitSession ==
  /\ CodEst = CHOOSE c \in Stations : TRUE
  /\ source_mode = SourceModes[1]
  /\ hora_str = hora_options[1]
  /\ fecha = CHOOSE d \in Dates : TRUE
  /\ pc = "idle"
  /\ hi = 0
  /\ found_hr = ""
  /\ last_error = None
  /\ shown = None
  /\ sounding_data \in PriorSoundings
  /\ tried = <<>>
  /\ test_hr = ""
  /\ wmo = <<>>
  /\ ret = NoReturn
  /\ calls = <<>>
  /\ lines = <<>>
  /\ pos = 0
  /\ reading = FALSE
  /\ n_expected = 0
  /\ n_read = 0
  /\ p_list = <<>>
  /\ T_list = <<>>
  /\ Td_list = <<>>
  /\ wdir_list = <<>>
  /\ wspd_list = <<>>
  /\ origin = <<>>
  /\ si = 0
  /\ last_exception = None
  /\ df = NoTable("", "")
  /\ fetched = <<>>

SpecSession == InitSession /\ [][Next]_vars

\* the handler has reached the loop of lecturaSondeoIGRA on some archive
InitIGRA ==
  /\ CodEst = CHOOSE c \in Stations : TRUE
  /\ source_mode = "IGRA"
  /\ hora_str = "00:00"
  /\ fecha \in Dates
  /\ pc = "igra_loop"
  /\ hi = 0
  /\ found_hr = ""
  /\ last_error = None
  /\ shown = None
  /\ sounding_data = NoData
  /\ test_hr = Fmt02(StrpHour(hora_str))
  /\ tried = <<Tried(test_hr, "")>>
  /\ wmo = <<>>
  /\ ret = NoReturn
  /\ calls = <<Call("IGRA", CodEst, test_hr)>>
  /\ lines \in ArchiveFiles
  /\ pos = 0
  /\ reading = FALSE
  /\ n_expected = 0
  /\ n_read = 0
  /\ p_list = <<>>
  /\ T_list = <<>>
  /\ Td_list = <<>>
  /\ wdir_list = <<>>
  /\ wspd_list = <<>>
  /\ origin = <<>>
  /\ si = 0
  /\ last_exception = None
  /\ df = NoTable("", "")
  /\ fetched = <<Fetch(IGRARequest(CodEst), FALSE)>>

NextIGRA ==
  \/ IGRALine
  \/ IGRAFinish

SpecIGRA == InitIGRA /\ [][NextIGRA]_vars

\* the handler has reached the loop of lecturaSondeoUWyo
InitUWyo ==
  /\ CodEst \in Stations
  /\ source_mode = "UWYO"
  /\ hora_str = "00:00"
  /\ fecha \in Dates
  /\ pc = "uwyo_loop"
  /\ hi = 0
  /\ found_hr = ""
  /\ last_error = None
  /\ shown = None
  /\ sounding_data = NoData
  /\ test_hr = Fmt02(StrpHour(hora_str))
  /\ tried = <<Tried(test_hr, "")>>
  /\ wmo = Last5(CodEst)
  /\ ret = NoReturn
  /\ calls = <<Call("UWYO", Last5(CodEst), test_hr)>>
  /\ lines = <<>>
  /\ pos = 0
  /\ reading = FALSE
  /\ n_expected = 0
  /\ n_read = 0
  /\ p_list = <<>>
  /\ T_list = <<>>
  /\ Td_list = <<>>
  /\ wdir_list = <<>>
  /\ wspd_list = <<>>
  /\ origin = <<>>
  /\ si = 0
  /\ last_exception = None
  /\ df = NoTable("", "")
  /\ fetched = <<>>

NextUWyo ==
  \/ UWyoAttempt(WebResponses)
  \/ UWyoExhausted

SpecUWyo == InitUWyo /\ [][NextUWyo]_vars

\* a call of get_sounding of sounding_sources.py
SourcesModes == {"IGRA", "UWYO", "AUTO", "auto", "BOTH"}

InitSources ==
  /\ CodEst \in Stations
  /\ source_mode \in SourcesModes
  /\ hora_str = "00:00"
  /\ fecha \in Dates
  /\ pc = "ss_gs"
  /\ hi = 0
  /\ found_hr = ""
  /\ last_error = None
  /\ shown = None
  /\ sounding_data = NoData
  /\ test_hr \in {"00", "12"}
  /\ tried = <<>>
  /\ wmo = <<>>
  /\ ret = NoReturn
  /\ calls = <<>>
  /\ lines = <<>>
  /\ pos = 0
  /\ reading = FALSE
  /\ n_expected = 0
  /\ n_read = 0
  /\ p_list = <<>>
  /\ T_list = <<>>
  /\ Td_list = <<>>
  /\ wdir_list = <<>>
  /\ wspd_list = <<>>
  /\ origin = <<>>
  /\ si = 0
  /\ last_exception = None
  /\ df = NoTable("", "")
  /\ fetched = <<>>

NextSources ==
  \/ SourcesGetSounding
  \/ IGRAFetch(AppArchiveFiles)
  \/ IGRALine
  \/ IGRAFinish
  \/ SourcesAfterIGRA
  \/ UWyoAttempt(AppWebResponses)
  \/ UWyoExhausted
  \/ SourcesAfterUWyo

SpecSources == InitSources /\ [][NextSources]_vars

\* either reader, on the archives and web responses of the reader level
InitReaders == InitIGRA \/ InitUWyo

NextReaders ==
  \/ IGRALine
  \/ IGRAFinish
  \/ UWyoAttempt(WebResponses)
  \/ UWyoExhausted

SpecReaders == InitReaders /\ [][NextReaders]_vars

\* ------------------------------------------------------------ properties
\* get_sounding is running (or has just handed its result to the loop)
InGetSounding ==
  pc \in {"igra_get", "igra_loop", "gs_igra", "uwyo_loop", "gs_uwyo", "retry_ret"}

SubCode == SubSeq(CodEst, Len(CodEst) - 4, Len(CodEst))

LastFetch == fetched[Len(fetched)]

TagOfVariant(src) == IF src = "FM35" THEN "UWYO-FM35" ELSE "UWYO-BUFR"

\* C1 (as stated): a profile that a reader or get_sounding returns has at
\* least 10 levels.
C1_AtLeastTenLevels ==
  (pc \in {"gs_igra", "gs_uwyo", "retry_ret", "found"} /\ ret.ok)
     => Len(ret.prof.p) >= 10

\* C2: in AUTO mode the archive reader is called first; the web reader is
\* called only after the archive reader raised, and then always, whatever
\* the exception; it is called with the last 5 characters of the station
\* code; a profile it returns is tagged with the variant that was fetched
\* last, never "IGRA".
C2_AutoArchiveThenWeb ==
  (source_mode = "AUTO" /\ InGetSounding) =>
    /\ Len(calls) >= 1
    /\ calls[1] = Call("IGRA", CodEst, test_hr)
    /\ \A i \in 2..Len(calls) :
         calls[i].ev = "call" =>
           /\ calls[i] = Call("UWYO", SubCode, test_hr)
           /\ calls[i - 1].reader = "IGRA"
           /\ calls[i - 1].ev = "raised"
    /\ \A i \in 1..Len(calls) :
         (calls[i].reader = "IGRA" /\ calls[i].ev = "raised" /\ pc # "gs_igra") =>
           /\ i < Len(calls)
           /\ calls[i + 1].reader = "UWYO"
           /\ calls[i + 1].ev = "call"
    /\ (pc \in {"gs_uwyo", "retry_ret"} /\ ret.ok /\ calls[Len(calls)].reader = "UWYO") =>
         /\ LastFetch.url.site = "uwyo"
         /\ LastFetch.url.id = SubCode
         /\ ret.tag = TagOfVariant(LastFetch.url.src)
         /\ ret.tag # "IGRA"

\* the archive request timed out and the BUFR variant of the web source
\* produced the profile
C2_Witness ==
  /\ source_mode = "AUTO"
  /\ pc = "retry_ret"
  /\ ret.ok
  /\ ret.tag = "UWYO-BUFR"
  /\ Len(calls) = 4
  /\ calls[2].err.exc = "Timeout"

C4_SingleSource ==
  /\ (source_mode = "IGRA" /\ InGetSounding) =>
       /\ Len(calls) \in 1..2
       /\ calls[1] = Call("IGRA", CodEst, test_hr)
       /\ \A i \in 1..Len(calls) : calls[i].reader = "IGRA"
       /\ \A i \in 1..Len(fetched) : fetched[i].url.site = "igra"
       /\ (pc = "retry_ret" /\ ~ret.ok) => (Len(calls) = 2 /\ ret.err = calls[2].err)
  /\ (source_mode = "UWYO" /\ InGetSounding) =>
       /\ Len(calls) \in 1..2
       /\ calls[1] = Call("UWYO", SubCode, test_hr)
       /\ \A i \in 1..Len(calls) : calls[i].reader = "UWYO"
       /\ \A i \in 1..Len(fetched) :
            fetched[i].url.site = "uwyo" /\ fetched[i].url.id = SubCode

\* mode IGRA, the archive request timed out and the exception reached the loop
C4_Witness ==
  /\ source_mode = "IGRA"
  /\ pc = "retry_ret"
  /\ ~ret.ok
  /\ ret.err.exc = "Timeout"
  /\ Len(fetched) = 2

\* the candidate hours as the claim lists them
Candidates ==
  IF hora_str = "AUTO" THEN <<"00", "12", "06", "18", "03", "09", "15", "21">>
  ELSE << ("00:00" :> "00" @@ "03:00" :> "03" @@ "06:00" :> "06" @@ "09:00" :> "09"
           @@ "12:00" :> "12" @@ "15:00" :> "15" @@ "18:00" :> "18"
           @@ "21:00" :> "21")[hora_str] >>

\* C5: the hours handed to get_sounding are the candidates in list order;
\* every one before the last attempted failed; the hour found is the last
\* attempted one and get_sounding returned for it; nothing is attempted
\* after a success.
C5_FirstSuccessInOrder ==
  /\ Len(tried) <= Len(Candidates)
  /\ \A i \in 1..Len(tried) : tried[i].hr = Candidates[i]
  /\ \A i \in 1..(Len(tried) - 1) : tried[i].out = "raised"
  /\ found_hr # "" => tried[Len(tried)] = Tried(found_hr, "returned")
  /\ (tried # <<>> /\ tried[Len(tried)].out = "returned") =>
        pc \in {"retry_ret", "found", "idle"}
  /\ sounding_data.stored =>
        /\ tried[Len(tried)] = Tried(sounding_data.hr, "returned")
        /\ sounding_data.prof = ret.prof

\* hour AUTO: 00 and 12 failed, the profile of 06 is stored
C5_Witness ==
  /\ hora_str = "AUTO"
  /\ sounding_data.stored
  /\ sounding_data.hr = "06"
  /\ Len(tried) = 3

\* C6: when get_sounding raised for every candidate hour, the handler ends
\* with the "No sounding found" error, which lists every candidate (8 for
\* hour AUTO) and embeds the exception of the last hour only; nothing is
\* stored.
C6_ExhaustionError ==
  (pc = "idle" /\ tried # <<>> /\ \A i \in 1..Len(tried) : tried[i].out = "raised") =>
    /\ Len(tried) = Len(Candidates)
    /\ hora_str = "AUTO" => Len(tried) = 8
    /\ ~ret.ok
    /\ shown = Exc("ValueError", "No sounding found for date",
                   <<"Tried">> \o [i \in 1..Len(tried) |-> tried[i].hr]
                     \o <<"Last error">> \o Str(ret.err))
    /\ ~sounding_data.stored

\* hour AUTO, source AUTO: eight hours failed on both sources
C6_Witness ==
  /\ pc = "idle"
  /\ hora_str = "AUTO"
  /\ source_mode = "AUTO"
  /\ Len(tried) = 8
  /\ Len(fetched) = 24
  /\ shown.msg = "No sounding found for date"

\* C7: every BUFR request directly follows a failed FM35 request for the
\* same station and time; an FM35 request never follows a failed FM35
\* request; nothing is requested after a success; the tag returned names
\* the variant requested last.
C7_VariantOrder ==
  /\ \A i \in 1..Len(fetched) :
       /\ fetched[i].ok => i = Len(fetched)
       /\ fetched[i].url.site = "uwyo" =>
            /\ fetched[i].url.src \in {"FM35", "BUFR"}
            /\ fetched[i].url.src = "BUFR" =>
                 /\ i > 1
                 /\ fetched[i - 1] = Fetch([fetched[i].url EXCEPT !.src = "FM35"], FALSE)
            /\ (fetched[i].url.src = "FM35" /\ i > 1) =>
                 (fetched[i - 1].url.site = "igra" \/ fetched[i - 1].url.src = "BUFR")
  /\ (pc = "uwyo_loop" /\ si = 1) => LastFetch.url.src = "FM35"
  /\ (pc = "gs_uwyo" /\ ret.ok) =>
       /\ LastFetch.ok
       /\ ret.tag = TagOfVariant(LastFetch.url.src)

\* FM35 failed and BUFR produced the profile
C7_Witness ==
  /\ pc = "gs_uwyo"
  /\ ret.ok
  /\ ret.tag = "UWYO-BUFR"
  /\ Len(fetched) = 2
  /\ ~fetched[1].ok

\* the body of the response is an HTML page: pandas cannot parse it, or
\* makes a one-column table of it
IsHtml(resp) ==
  /\ resp.net = "ok"
  /\ \/ resp.body = "ParserError"
     \/ resp.body = "table" /\ resp.cols = <<"<!DOCTYPE html>">>

\* the exceptions of an attempt whose table has every column and no row
EmptyResultErrors(src) ==
  { r.err : r \in UWyoTry(Response("ok", "table",
                                   <<"pressure", "temperature", "dew point",
                                     "direction", "speed">>, <<>>), src) }

\* C8 (as stated): an attempt on an HTML body fails with the format error
\* (the one that carries the columns found), and not with the exception of
\* an empty result.
C8_HtmlIsFormatError ==
  (pc = "uwyo_loop" /\ si > 0 /\ IsHtml(df)) =>
    /\ last_exception.msg = "Formato UWyo inesperado o columna faltante"
    /\ last_exception \notin EmptyResultErrors(sources[si])

\* some logical field has no alias among the columns
Unresolvable(cols) == \E f \in 1..5 : Range(AliasLists[f]) \cap Range(cols) = {}

\* C9 (as stated): when the web reader fails on a table with rows whose
\* columns cannot satisfy the aliases, its exception is the format error
\* with the columns found, and not the exception of an empty result.
C9_UnresolvableIsFormatError ==
  (pc = "gs_uwyo" /\ ~ret.ok /\ df.net = "ok" /\ df.body = "table"
     /\ df.rows # <<>> /\ Unresolvable(df.cols)) =>
    /\ "Formato UWyo inesperado o columna faltante" \in Range(Str(ret.err))
    /\ Range(df.cols) \subseteq Range(Str(ret.err))
    /\ ret.err \notin {AllSourcesFailed(e) : e \in EmptyResultErrors("BUFR")}

\* the last header at or before line k (0: none)
LastHdr(k) ==
  LET H == {h \in 1..k : lines[h].hdr}
  IN  IF H = {} THEN 0 ELSE CHOOSE h \in H : \A g \in H : g <= h

\* line k is a data line among the first N after a header that matches the
\* target and declares N
InDeclaredBlock(k) ==
  /\ ~lines[k].hdr
  /\ LastHdr(k) > 0
  /\ lines[LastHdr(k)].time = <<fecha[1], fecha[2], fecha[3], test_hr>>
  /\ k - LastHdr(k) <= lines[LastHdr(k)].nlines

\* the line is five integers and neither pressure nor temperature is the
\* missing-value code
Usable(line) == line.ints /\ line.pres # -9999 /\ line.temp # -9999

\* C10: after a matching header declaring N lines the reader has counted
\* min(N, data lines passed), whatever those lines hold; every level comes
\* from one of the first N data lines of such a block; every usable line
\* among them has given a level.
C10_ConsumesDeclaredLines ==
  pc \in {"igra_loop", "gs_igra"} =>
    /\ \A i \in 1..Len(origin) : InDeclaredBlock(origin[i])
    /\ (LastHdr(pos) > 0 /\ lines[LastHdr(pos)].ints
          /\ lines[LastHdr(pos)].time = <<fecha[1], fecha[2], fecha[3], test_hr>>) =>
         n_read = Min2(lines[LastHdr(pos)].nlines, pos - LastHdr(pos))
    /\ \A k \in 1..pos :
         (InDeclaredBlock(k) /\ Usable(lines[k])) => k \in Range(origin)

\* a block that declares 11 lines and holds 12, one of the 11 not usable:
\* 10 levels, the 12th line passed over, the profile returned
C10_Witness ==
  /\ pc = "gs_igra"
  /\ ret.ok
  /\ \E h \in 1..Len(lines) :
       /\ lines[h].hdr
       /\ lines[h].nlines = 11
       /\ Len(lines) >= h + 12
       /\ ~lines[h + 12].hdr
       /\ Usable(lines[h + 12])
       /\ \E k \in (h + 1)..(h + 11) : ~lines[k].ints
       /\ Len(origin) = 10

\* a reader has just returned a profile
ReaderReturned == pc \in {"gs_igra", "gs_uwyo"} /\ ret.ok

\* C11: in a profile that a reader returns, no pressure is smaller than the
\* one after it.
C11_PressureNonIncreasing ==
  ReaderReturned =>
    \A i \in 1..(Len(ret.prof.p) - 1) :
      ret.prof.p[i].num * ret.prof.p[i + 1].den
        >= ret.prof.p[i + 1].num * ret.prof.p[i].den

\* a returned archive profile whose levels were read in another order
\* (a level followed by one of higher pressure)
C11_Witness ==
  /\ pc = "gs_igra"
  /\ ret.ok
  /\ \E j \in 1..(Len(p_list) - 1) : p_list[j].num < p_list[j + 1].num
  /\ \E j \in 1..(Len(p_list) - 1) : p_list[j].num > p_list[j + 1].num

\* level i of the returned profile holds, in all five arrays, the values of
\* archive line k
FromLine(i, k) ==
  LET line == lines[k]
      nowind == line.wdir = -9999 \/ line.wspd = -9999
      wind == {ret.prof.u[i], ret.prof.v[i]}
  IN  /\ ret.prof.p[i].num = line.pres
      /\ ret.prof.T[i].num = line.temp
      /\ ret.prof.Td[i].nan = (line.dtd = -9999)
      /\ ~ret.prof.Td[i].nan => ret.prof.Td[i].num = line.temp - line.dtd
      /\ ret.prof.u[i].comp = "u"
      /\ ret.prof.v[i].comp = "v"
      /\ \A w \in wind :
           /\ w.nan = nowind
           /\ ~nowind => w.spd.num = line.wspd /\ w.dir.num = line.wdir

\* the cell of row r of the response under the first alias present
CellOf(r, aliases) == ToNumeric(df.rows[r][ColumnIndex(df.cols, get_col(df.cols, aliases))])

\* level i of the returned profile holds, in all five arrays, the values of
\* row r of the response
FromRow(i, r) ==
  /\ ret.prof.p[i] = CellOf(r, pAliases)
  /\ ret.prof.T[i] = CellOf(r, TAliases)
  /\ ret.prof.Td[i] = CellOf(r, TdAliases)
  /\ ret.prof.u[i].comp = "u"
  /\ ret.prof.v[i].comp = "v"
  /\ \A w \in {ret.prof.u[i], ret.prof.v[i]} :
       w.spd = CellOf(r, wspdAliases) /\ w.dir = CellOf(r, wdirAliases)

\* the rows of the response whose pressure and temperature are numbers
ValidRows ==
  {r \in 1..Len(df.rows) : ~CellOf(r, pAliases).nan /\ ~CellOf(r, TAliases).nan}

SameLength(n) ==
  /\ Len(ret.prof.p) = n
  /\ Len(ret.prof.T) = n
  /\ Len(ret.prof.Td) = n
  /\ Len(ret.prof.u) = n
  /\ Len(ret.prof.v) = n

\* C12: the five arrays of a returned profile have one length, the number
\* of levels kept, and at every index the five values are those of one
\* source level (archive line, row of the response); every kept level is
\* at some index.
C12_ArraysAligned ==
  /\ (pc = "gs_igra" /\ ret.ok) =>
       /\ SameLength(Len(origin))
       /\ \A i \in 1..Len(ret.prof.p) : \E j \in 1..Len(origin) : FromLine(i, origin[j])
       /\ \A j \in 1..Len(origin) : \E i \in 1..Len(ret.prof.p) : FromLine(i, origin[j])
  /\ (pc = "gs_uwyo" /\ ret.ok) =>
       /\ SameLength(Cardinality(ValidRows))
       /\ \A i \in 1..Len(ret.prof.p) : \E r \in ValidRows : FromRow(i, r)
       /\ \A r \in ValidRows : \E i \in 1..Len(ret.prof.p) : FromRow(i, r)

\* a web profile whose first level is not the first row of the response,
\* after a row was filtered out
C12_Witness ==
  /\ pc = "gs_uwyo"
  /\ ret.ok
  /\ Len(df.rows) > Len(ret.prof.p)
  /\ Len(ret.prof.p) >= 3
  /\ ~FromRow(1, 1)

\* the three values a profile's tag can take
Tags == {"IGRA", "UWYO-FM35", "UWYO-BUFR"}

\* C13 (as stated): what get_sounding returns is a profile of exactly five
\* arrays together with one of the three tags, in sondeo.py and in
\* sounding_sources.py alike.
C13_ProfileAndTag ==
  (pc \in {"retry_ret", "ss_ret"} /\ ret.ok) =>
    /\ DOMAIN ret.prof = {"p", "T", "Td", "u", "v"}
    /\ ret.tag \in Tags

\* the header at line h carries exactly the target timestamp
MatchesTarget(h) == lines[h].time = <<fecha[1], fecha[2], fecha[3], test_hr>>

\* C14: every collected level is a data line whose nearest header above it
\* carries exactly the target timestamp; before any header, and after a
\* header with another timestamp, the reader is skipping and expects 0
\* lines; after a matching header it is reading and expects the declared
\* number.
C14_OnlyAfterMatchingHeader ==
  pc \in {"igra_loop", "gs_igra"} =>
    /\ \A j \in 1..Len(origin) :
         /\ ~lines[origin[j]].hdr
         /\ LastHdr(origin[j]) > 0
         /\ MatchesTarget(LastHdr(origin[j]))
    /\ LastHdr(pos) = 0 => (~reading /\ n_expected = 0)
    /\ (LastHdr(pos) > 0 /\ lines[LastHdr(pos)].ints) =>
         IF MatchesTarget(LastHdr(pos))
           THEN reading /\ n_expected = lines[LastHdr(pos)].nlines
           ELSE ~reading /\ n_expected = 0

\* a profile was returned from a matching block that is followed by the
\* header of another day and a usable data line, which gave no level
C14_Witness ==
  /\ pc = "gs_igra"
  /\ ret.ok
  /\ ~reading
  /\ \E k \in 2..Len(lines) :
       /\ lines[k - 1].hdr
       /\ lines[k - 1].time[4] = test_hr
       /\ ~MatchesTarget(k - 1)
       /\ Usable(lines[k])
       /\ \A j \in 1..Len(origin) : origin[j] < k - 1

\* the request runs with hour AUTO and source AUTO
AutoAuto == hora_str = "AUTO" /\ source_mode = "AUTO"

\* C15 (as stated): with hour AUTO and source AUTO one request issues at
\* most 8 remote fetches.
C15_AtMost8Fetches == AutoAuto => Len(fetched) <= 8

\* C15 (amended): with hour AUTO and source AUTO one request issues at most
\* 24 remote fetches: for each of the at most 8 candidate hours one fetch of
\* the archive and at most two of the web service.
C15_AtMost24Fetches ==
  AutoAuto =>
    /\ Len(fetched) <= 24
    /\ Len(tried) <= 8
    /\ Cardinality({i \in 1..Len(fetched) : fetched[i].url.site = "igra"}) <= Len(tried)
    /\ \A hr \in Range(hours_to_try(hora_str)) :
         Cardinality({i \in 1..Len(fetched) :
                        fetched[i].url.site = "uwyo" /\ fetched[i].url.hr = hr}) <= 2

\* every one of the 8 hours failed in the archive and in both web variants
C15_Witness ==
  /\ AutoAuto
  /\ pc = "idle"
  /\ Len(tried) = 8
  /\ Len(fetched) = 3 * Len(tried)

\* the value is a number and not the archive's missing-value code -9999
\* under the scale (100 for pressure, 10 for temperature)
Present(x, scale) == ~x.nan /\ x.num * scale # -9999 * x.den

\* C16: every level of a returned profile has a pressure and a temperature
\* that are numbers, not NaN and not the missing-value code; no archive
\* line with the code in either field has given a level, and the web
\* profile has exactly the rows whose pressure and temperature parse.
C16_PressureAndTemperaturePresent ==
  /\ ReaderReturned =>
       \A i \in 1..Len(ret.prof.p) :
         Present(ret.prof.p[i], 100) /\ Present(ret.prof.T[i], 10)
  /\ pc \in {"igra_loop", "gs_igra"} =>
       \A j \in 1..Len(origin) :
         /\ lines[origin[j]].ints
         /\ lines[origin[j]].pres # -9999
         /\ lines[origin[j]].temp # -9999
  /\ (pc = "gs_uwyo" /\ ret.ok) =>
       /\ Len(ret.prof.p) = Cardinality(ValidRows)
       /\ Len(ret.prof.T) = Cardinality(ValidRows)

\* an archive profile from a block in which one of the declared lines had
\* no temperature
C16_Witness ==
  /\ pc = "gs_igra"
  /\ ret.ok
  /\ \E k \in 1..Len(lines) :
       InDeclaredBlock(k) /\ lines[k].ints /\ lines[k].temp = -9999

\* C17 (as stated): every level of a profile returned by a reader has a
\* pressure above 0 hPa.
C17_PressurePositive ==
  ReaderReturned => \A i \in 1..Len(ret.prof.p) : ret.prof.p[i].num > 0

\* the declared, usable data lines among the first k lines of the archive
UsableInBlock(k) == {h \in 1..k : InDeclaredBlock(h) /\ Usable(lines[h])}

NoDewPoint(line) == line.dtd = -9999

NoWind(line) == line.wdir = -9999 \/ line.wspd = -9999

\* C18: a declared data line with valid pressure and temperature gives a
\* level also when its dew-point depression or its wind is missing, with
\* dew point NaN and with wind NaN respectively; the reader answers "not
\* available" only when fewer than 10 such lines were there, those with
\* missing dew point or wind counted.
C18_MissingDewOrWindKeepsLevel ==
  pc \in {"igra_loop", "gs_igra"} =>
    /\ \A k \in UsableInBlock(pos) :
         (NoDewPoint(lines[k]) \/ NoWind(lines[k])) =>
           \E j \in 1..Len(origin) :
             /\ origin[j] = k
             /\ ~p_list[j].nan
             /\ ~T_list[j].nan
             /\ Td_list[j].nan = NoDewPoint(lines[k])
             /\ wdir_list[j].nan = NoWind(lines[k])
             /\ wspd_list[j].nan = NoWind(lines[k])
    /\ (pc = "gs_igra" /\ ret = Raised(IGRAUnavailable)) =>
         Cardinality(UsableInBlock(pos)) < 10
    /\ (pc = "gs_igra" /\ ret.ok) =>
         /\ Len(ret.prof.p) = Cardinality(UsableInBlock(pos))
         /\ Cardinality({i \in 1..Len(ret.prof.Td) : ret.prof.Td[i].nan})
              = Cardinality({k \in UsableInBlock(pos) : NoDewPoint(lines[k])})
         /\ Cardinality({i \in 1..Len(ret.prof.u) : ret.prof.u[i].nan /\ ret.prof.v[i].nan})
              = Cardinality({k \in UsableInBlock(pos) : NoWind(lines[k])})

\* a profile of exactly 10 levels, among them levels without dew point,
\* one without wind direction and one without wind speed
C18_Witness ==
  /\ pc = "gs_igra"
  /\ ret.ok
  /\ Len(ret.prof.p) = 10
  /\ \E i \in 1..10 : ret.prof.Td[i].nan
  /\ \E j \in 1..Len(origin) : lines[origin[j]].wspd = -9999
  /\ \E j \in 1..Len(origin) : lines[origin[j]].wdir = -9999

\* the number x is the fraction n / d
IsFraction(x, n, d) == ~x.nan /\ x.den > 0 /\ x.num * d = n * x.den

\* the data line is the worked example: 101325, -50, 20
IsExample(line) == line.pres = 101325 /\ line.temp = -50 /\ line.dtd = 20

\* C19: a kept archive level with raw pres, temp, dewdep has pressure
\* pres/100, temperature temp/10 and, when dewdep is not missing, dew point
\* (temp - dewdep)/10; the line 101325, -50, 20 gives 1013.25 hPa, -5.0 and
\* -7.0 degrees, in the lists and in the returned profile.
C19_DecodedValues ==
  pc \in {"igra_loop", "gs_igra"} =>
    /\ \A j \in 1..Len(origin) :
         LET line == lines[origin[j]]
         IN  /\ IsFraction(p_list[j], line.pres, 100)
             /\ IsFraction(T_list[j], line.temp, 10)
             /\ line.dtd # -9999 => IsFraction(Td_list[j], line.temp - line.dtd, 10)
             /\ IsExample(line) =>
                  /\ IsFraction(p_list[j], 4053, 4)
                  /\ IsFraction(T_list[j], -5, 1)
                  /\ IsFraction(Td_list[j], -7, 1)
    /\ (pc = "gs_igra" /\ ret.ok /\ \E j \in 1..Len(origin) : IsExample(lines[origin[j]])) =>
         \E i \in 1..Len(ret.prof.p) :
           /\ IsFraction(ret.prof.p[i], 4053, 4)
           /\ IsFraction(ret.prof.T[i], -5, 1)
           /\ IsFraction(ret.prof.Td[i], -7, 1)

\* a returned profile with the level of the worked example
C19_Witness ==
  /\ pc = "gs_igra"
  /\ ret.ok
  /\ \E j \in 1..Len(origin) : IsExample(lines[origin[j]])
  /\ IsFraction(ret.prof.p[1], 4053, 4)

\* the first name of the alias list that is a column of the response
FirstAlias(aliases) ==
  aliases[CHOOSE a \in 1..Len(aliases) :
            /\ aliases[a] \in Range(df.cols)
            /\ \A b \in 1..(a - 1) : aliases[b] \notin Range(df.cols)]

\* column c of row r of the response, as a number
Value(r, c) == ToNumeric(df.rows[r][ColumnIndex(df.cols, c)])

\* the response is a table with rows in which every field has an alias
\* among the columns and some row has a pressure and a temperature
Resolvable ==
  /\ df.net = "ok"
  /\ df.body = "table"
  /\ ~Unresolvable(df.cols)
  /\ \E r \in 1..Len(df.rows) :
       ~Value(r, FirstAlias(pAliases)).nan /\ ~Value(r, FirstAlias(TAliases)).nan

\* C20 (as stated): whenever the columns of the response hold at least one
\* alias of each of the five fields, the web reader resolves every field to
\* the first alias present and returns the profile read from those columns;
\* 'dwpt' for the dew point is such a case.
C20_FirstAliasPresent ==
  (pc \in {"uwyo_loop", "gs_uwyo"} /\ Resolvable) =>
    /\ pc = "gs_uwyo"
    /\ ret.ok
    /\ \A i \in 1..Len(ret.prof.p) : \E r \in 1..Len(df.rows) :
         /\ ret.prof.p[i] = Value(r, FirstAlias(pAliases))
         /\ ret.prof.T[i] = Value(r, FirstAlias(TAliases))
         /\ ret.prof.Td[i] = Value(r, FirstAlias(TdAliases))
         /\ ret.prof.u[i].dir = Value(r, FirstAlias(wdirAliases))
         /\ ret.prof.u[i].spd = Value(r, FirstAlias(wspdAliases))

\* the unit the claim gives to a wind-speed alias
UnitOfAlias(name) ==
  IF name = "wind speed_m/s" THEN "m/s"
  ELSE IF name \in {"sknt", "wind speed_kn"} THEN "knots"
  ELSE "knots"

\* C21: in a profile the web reader returns, the speed inside every wind
\* component carries the unit of the matched wind-speed alias: m/s for
\* 'wind speed_m/s', knots for 'sknt' and 'wind speed_kn', knots for
\* 'speed'; the same for u and v, every level and both variants.
C21_WindUnitFromAlias ==
  (pc = "gs_uwyo" /\ ret.ok) =>
    /\ FirstAlias(wspdAliases) \in Range(wspdAliases)
    /\ \A i \in 1..Len(ret.prof.u) :
         /\ ret.prof.u[i].unit = UnitOfAlias(FirstAlias(wspdAliases))
         /\ ret.prof.v[i].unit = UnitOfAlias(FirstAlias(wspdAliases))

\* a profile read from a response whose wind-speed column is
\* 'wind speed_m/s', returned by the second variant
C21_Witness ==
  /\ pc = "gs_uwyo"
  /\ ret.ok
  /\ ret.tag = "UWYO-BUFR"
  /\ "wind speed_m/s" \in Range(df.cols)
  /\ Len(ret.prof.u) >= 2
  /\ ret.prof.u[1].unit = "m/s"

\* C22: the stored sounding changes only in the step that stores the
\* result of a successful retrieval, and that step shows no error; a step
\* that shows an error (every hour failed, or a later step raised) leaves
\* the stored sounding as it was.
C22_FailureKeepsStored ==
  [][ /\ sounding_data' # sounding_data =>
           /\ pc = "found"
           /\ ret.ok
           /\ shown' = shown
           /\ sounding_data'.prof = ret.prof
      /\ shown' # shown => sounding_data' = sounding_data ]_vars

\* a request made in a session that held a sounding has failed at every
\* hour, and the session still holds that sounding
C22_Witness ==
  /\ pc = "idle"
  /\ tried # <<>>
  /\ \A i \in 1..Len(tried) : tried[i].out = "raised"
  /\ shown # None
  /\ sounding_data \in PriorSoundings

\* the request of this session has stored its sounding
StoredNow == sounding_data.stored /\ tried # <<>>

\* C23: once the sounding is stored, the last hour handed to get_sounding
\* is the one that returned, every hour before it raised, and the stored
\* hour is that hour; the last fetch is the one the profile was made from,
\* and the stored URL names its site and station, and for the web service
\* its variant, date and hour too; the stored station, date, tag and
\* profile are those of the request and of that attempt.
C23_StoredMatchesAttempt ==
  StoredNow =>
    /\ tried[Len(tried)].out = "returned"
    /\ \A i \in 1..(Len(tried) - 1) : tried[i].out = "raised"
    /\ sounding_data.hr = tried[Len(tried)].hr
    /\ sounding_data.hr = Candidates[Len(tried)]
    /\ sounding_data.CodEst = CodEst
    /\ sounding_data.date = fecha
    /\ sounding_data.prof = ret.prof
    /\ sounding_data.source_used = ret.tag
    /\ LastFetch.ok
    /\ sounding_data.source_url.site = LastFetch.url.site
    /\ sounding_data.source_url.id = LastFetch.url.id
    /\ LastFetch.url.site = "igra" <=> sounding_data.source_used = "IGRA"
    /\ LastFetch.url.site = "uwyo" =>
         /\ sounding_data.source_used = TagOfVariant(LastFetch.url.src)
         /\ sounding_data.source_url.src = LastFetch.url.src
         /\ sounding_data.source_url.hr = LastFetch.url.hr
         /\ sounding_data.source_url.hr = sounding_data.hr
         /\ sounding_data.source_url.date = LastFetch.url.date

\* the sounding stored came from the first web variant at an hour that is
\* not the first candidate
C23_Witness ==
  /\ StoredNow
  /\ Len(tried) >= 2
  /\ sounding_data.hr # Candidates[1]
  /\ sounding_data.source_used = "UWYO-FM35"
  /\ sounding_data.source_url.src = "FM35"
====
